---- MODULE Spec2Model ----
(***************************************************************************)
(* A model of lega (src/lega.js): the update-directory commands over a     *)
(* filesystem (create, add, remove, list, compare, backup, restore) and    *)
(* the confirm-then-upload push command over an FTP client.                *)
(*                                                                         *)
(* A path is a sequence of segments; an absolute path starts with the      *)
(* segment "/".  A filesystem is a function from absolute normalised paths *)
(* to nodes; a node is a directory or a file with its bytes.               *)
(***************************************************************************)
EXTENDS Integers, Sequences, FiniteSets, TLC

VARIABLES
    fs,         \* the filesystem: absolute path -> node
    order,      \* the order in which readdirSync enumerates names
    clock,      \* Date.now()
    lastOp,     \* the command that ran last, with what it saw and whether it threw
    prevOp,     \* the command that ran before it
    snap,       \* backup directory -> the tree the update directory held at backup time
    oldTree, newTree,   \* compare: the two trees under comparison
    outAB, outBA,       \* compare: what compare printed in each direction
    version, env,       \* push: the <version> argument, whether the FTP_* variables are set
    pc,         \* push: position of the push action and of its ready handler
    conn,       \* push: state of the FTP client's connection
    rlOpen,     \* push: the readline interface is created and not closed
    answer,     \* push: what was typed at the prompt
    plan,       \* push: filesToUpload
    puts,       \* push: the client.put calls issued, in order (indices into plan)
    inflight,   \* push: indices of the puts whose callback is pending
    acked,      \* push: indices whose put called back without error
    failed,     \* push: indices whose put called back with an error
    log         \* push: the lines printed

fsVars == <<fs, order, clock, lastOp, prevOp, snap>>
cmpVars == <<oldTree, newTree, outAB, outBA>>
pushVars == <<version, env, pc, conn, rlOpen, answer, plan, puts, inflight, acked, failed, log>>
vars == <<fsVars, cmpVars, pushVars>>

-----------------------------------------------------------------------------
(* Sequences                                                               *)

IsPrefix(a, b) == Len(a) <= Len(b) /\ SubSeq(b, 1, Len(a)) = a

Range(s) == {s[i] : i \in 1..Len(s)}

RECURSIVE Repeat(_, _)
Repeat(x, n) == IF n = 0 THEN <<>> ELSE <<x>> \o Repeat(x, n - 1)

-----------------------------------------------------------------------------
(* path: resolve, join, relative, dirname (POSIX)                          *)

IsAbsolute(p) == Len(p) > 0 /\ p[1] = "/"

\* path.normalize on segments: "." and inner "/" vanish, ".." removes the
\* segment before it, stays at the root of an absolute path and is kept at
\* the front of a relative one.
RECURSIVE NormalizeFrom(_, _)
NormalizeFrom(acc, rest) ==
    IF rest = <<>> THEN acc
    ELSE LET s == Head(rest)
             t == Tail(rest)
         IN  IF s = "." \/ (s = "/" /\ acc # <<>>) THEN NormalizeFrom(acc, t)
             ELSE IF s = ".."
                  THEN IF acc = <<>> \/ acc[Len(acc)] = ".."
                       THEN NormalizeFrom(Append(acc, ".."), t)
                       ELSE IF acc = <<"/">>
                            THEN NormalizeFrom(acc, t)
                            ELSE NormalizeFrom(SubSeq(acc, 1, Len(acc) - 1), t)
                  ELSE NormalizeFrom(Append(acc, s), t)

Normalize(p) == NormalizeFrom(<<>>, p)

\* path.join: the pieces are concatenated (a later absolute piece does not
\* restart the path) and the whole is normalised.
Join(a, b) == Normalize(a \o b)

Cwd == <<"/", "w">>

\* path.resolve(process.cwd(), p)
Resolve(p) == IF IsAbsolute(p) THEN Normalize(p) ELSE Normalize(Cwd \o p)

RECURSIVE CommonLen(_, _)
CommonLen(a, b) ==
    IF a = <<>> \/ b = <<>> \/ Head(a) # Head(b) THEN 0
    ELSE 1 + CommonLen(Tail(a), Tail(b))

\* path.relative(from, to): both are resolved, the common leading segments
\* are dropped, one ".." per remaining segment of from, then the rest of to.
Relative(from, to) ==
    LET f == Resolve(from)
        t == Resolve(to)
        n == CommonLen(f, t)
    IN  Repeat("..", Len(f) - n) \o SubSeq(t, n + 1, Len(t))

Dirname(p) == IF Len(p) <= 1 THEN p ELSE SubSeq(p, 1, Len(p) - 1)

Basename(p) == p[Len(p)]

-----------------------------------------------------------------------------
(* fs: the synchronous filesystem calls the commands use.  A call that can *)
(* throw returns [fs, ok]; ok = FALSE is the exception.                    *)

Dir == [kind |-> "dir", data |-> <<>>]
File(bytes) == [kind |-> "file", data |-> bytes]

ExistsSync(f, p) == p \in DOMAIN f
IsDirectory(f, p) == p \in DOMAIN f /\ f[p].kind = "dir"
IsFile(f, p) == p \in DOMAIN f /\ f[p].kind = "file"

Ok(f) == [fs |-> f, ok |-> TRUE]
Throw(f) == [fs |-> f, ok |-> FALSE]

\* the names of the entries of directory d, in enumeration order
ChildNames(f, d) == {p[Len(p)] : p \in {q \in DOMAIN f : Len(q) = Len(d) + 1 /\ IsPrefix(d, q)}}
ReaddirSync(f, d) == SelectSeq(order, LAMBDA n : n \in ChildNames(f, d))
CanReaddir(f, d) == IsDirectory(f, d)

\* fs.mkdirSync(p, {recursive: true}): every missing ancestor is created;
\* throws when p or an ancestor is a file.
Ancestors(p) == {SubSeq(p, 1, i) : i \in 1..Len(p)}
MkdirSync(f, p) ==
    IF \E q \in Ancestors(p) : IsFile(f, q) THEN Throw(f)
    ELSE Ok([q \in DOMAIN f \cup Ancestors(p) |-> IF q \in DOMAIN f THEN f[q] ELSE Dir])

\* fs.copyFileSync(src, dest): throws when src is missing or a directory,
\* when dest is a directory or dest's parent is no directory.
CopyFileSync(f, src, dest) ==
    IF ~IsFile(f, src) \/ IsDirectory(f, dest) \/ ~IsDirectory(f, Dirname(dest))
    THEN Throw(f)
    ELSE Ok([q \in DOMAIN f \cup {dest} |-> IF q = dest THEN f[src] ELSE f[q]])

\* fs.unlinkSync(p): throws when p is missing or a directory.
UnlinkSync(f, p) ==
    IF ~IsFile(f, p) THEN Throw(f)
    ELSE Ok([q \in DOMAIN f \ {p} |-> f[q]])

\* the tree under d, as relative path -> node (the empty path is d itself)
Subtree(f, d) ==
    LET under == {q \in DOMAIN f : IsPrefix(d, q)}
    IN  [r \in {SubSeq(q, Len(d) + 1, Len(q)) : q \in under} |-> f[d \o r]]

\* fs.readdirSync(d, {withFileTypes: true}): the entries with their kinds
Dirents(f, d) ==
    LET names == ReaddirSync(f, d)
    IN  [i \in 1..Len(names) |->
            [name |-> names[i], isDirectory |-> IsDirectory(f, Append(d, names[i]))]]

-----------------------------------------------------------------------------
(* The update directory                                                    *)

UpdateDir == <<"u">>
FullPath == Resolve(UpdateDir)
OldDir == Join(FullPath, <<"old">>)
NewDir == Join(FullPath, <<"new">>)

\* create <updateDir>
CreateDirs(f) ==
    LET r1 == IF ExistsSync(f, FullPath) THEN Ok(f) ELSE MkdirSync(f, FullPath)
        r2 == IF ~r1.ok THEN r1
              ELSE IF ExistsSync(r1.fs, OldDir) THEN r1 ELSE MkdirSync(r1.fs, OldDir)
    IN  IF ~r2.ok THEN r2
        ELSE IF ExistsSync(r2.fs, NewDir) THEN r2 ELSE MkdirSync(r2.fs, NewDir)

\* add <updateDir> <filePath>: where the copies go
RelPath(filePath) == Relative(Cwd, filePath)
DestOldPath(filePath) == Join(OldDir, RelPath(filePath))
DestNewPath(filePath) == Join(NewDir, RelPath(filePath))

\* add <updateDir> <filePath>: both mkdirSync calls, then both copyFileSync
\* calls; filePath is read relative to the working directory.
AddFile(f, filePath) ==
    LET src == Resolve(filePath)
        r1 == MkdirSync(f, Dirname(DestOldPath(filePath)))
        r2 == IF r1.ok THEN MkdirSync(r1.fs, Dirname(DestNewPath(filePath))) ELSE r1
        r3 == IF r2.ok THEN CopyFileSync(r2.fs, src, DestOldPath(filePath)) ELSE r2
    IN  IF r3.ok THEN CopyFileSync(r3.fs, src, DestNewPath(filePath)) ELSE r3

\* remove <updateDir> <filePath>
RemoveFileIfExists(f, file) ==
    IF ExistsSync(f, file) THEN UnlinkSync(f, file) ELSE Ok(f)

RemoveOldPath(filePath) == Normalize(FullPath \o <<"old">> \o filePath)
RemoveNewPath(filePath) == Normalize(FullPath \o <<"new">> \o filePath)

\* remove that forgets the new/ side
RemoveFileOldOnly(f, filePath) == RemoveFileIfExists(f, RemoveOldPath(filePath))

RemoveFile(f, filePath) ==
    LET r1 == RemoveFileIfExists(f, RemoveOldPath(filePath))
    IN  IF r1.ok THEN RemoveFileIfExists(r1.fs, RemoveNewPath(filePath)) ELSE r1

\* list <updateDir> <version>: the files under dir, depth first
RECURSIVE ListFilesRecursively(_, _)
RECURSIVE ListEntries(_, _, _)
ListEntries(f, dir, entries) ==
    IF entries = <<>> THEN <<>>
    ELSE LET e == Head(entries)
             entryPath == Append(dir, e.name)
         IN  (IF e.isDirectory THEN ListFilesRecursively(f, entryPath) ELSE <<entryPath>>)
             \o ListEntries(f, dir, Tail(entries))
ListFilesRecursively(f, dir) == ListEntries(f, dir, Dirents(f, dir))

\* backup / restore: copyDirectory(src, dest)
RECURSIVE CopyDirectory(_, _, _)
RECURSIVE CopyEntries(_, _, _, _)
CopyEntries(f, entries, src, dest) ==
    IF entries = <<>> THEN Ok(f)
    ELSE LET e == Head(entries)
             srcPath == Append(src, e.name)
             destPath == Append(dest, e.name)
             r == IF e.isDirectory THEN CopyDirectory(f, srcPath, destPath)
                  ELSE CopyFileSync(f, srcPath, destPath)
         IN  IF r.ok THEN CopyEntries(r.fs, Tail(entries), src, dest) ELSE r
CopyDirectory(f, src, dest) ==
    LET r1 == MkdirSync(f, dest)
    IN  IF ~r1.ok THEN r1
        ELSE IF ~CanReaddir(r1.fs, src) THEN Throw(r1.fs)
        ELSE CopyEntries(r1.fs, Dirents(r1.fs, src), src, dest)

\* restore: deleteDirectory(dir)
RECURSIVE DeleteDirectory(_, _)
RECURSIVE DeleteEntries(_, _, _)
DeleteEntries(f, dir, names) ==
    IF names = <<>> THEN Ok(f)
    ELSE LET curPath == Append(dir, Head(names))
             r == IF IsDirectory(f, curPath) THEN DeleteDirectory(f, curPath)
                  ELSE UnlinkSync(f, curPath)
         IN  IF r.ok THEN DeleteEntries(r.fs, dir, Tail(names)) ELSE r
DeleteDirectory(f, dir) ==
    IF ~ExistsSync(f, dir) THEN Ok(f)
    ELSE IF ~CanReaddir(f, dir) THEN Throw(f)
    ELSE LET r == DeleteEntries(f, dir, ReaddirSync(f, dir))
         IN  IF r.ok THEN Ok([q \in DOMAIN r.fs \ {dir} |-> r.fs[q]]) ELSE r

\* backup <updateDir>: the directory `${fullPath}_backup_${Date.now()}`
BackupDir(now) ==
    Append(Dirname(FullPath), Basename(FullPath) \o "_backup_" \o ToString(now))

BackupTree(f, now) == CopyDirectory(f, FullPath, BackupDir(now))

\* restore that copies the backup over the update directory without deleting it first
RestoreTreeKeepsRoot(f, backupDir) ==
    LET backupPath == Resolve(backupDir)
    IN  IF ~ExistsSync(f, backupPath) THEN Ok(f)
        ELSE CopyDirectory(f, backupPath, FullPath)

\* restore <updateDir> <backupDir>
RestoreTree(f, backupDir) ==
    LET backupPath == Resolve(backupDir)
    IN  IF ~ExistsSync(f, backupPath) THEN Ok(f)
        ELSE LET r == DeleteDirectory(f, FullPath)
             IN  IF r.ok THEN CopyDirectory(r.fs, backupPath, FullPath) ELSE r

-----------------------------------------------------------------------------
(* compare <updateDir>                                                     *)

\* Buffer.prototype.toString(): UTF-8 decoding to code points.  A byte that
\* cannot start or continue a sequence ends the sequence in U+FFFD; a byte
\* that ended a sequence in this way is read again as a first byte.
RECURSIVE Utf8Decode(_, _, _, _, _)
Utf8Decode(bytes, cp, needed, lower, upper) ==
    IF bytes = <<>> THEN (IF needed # 0 THEN <<65533>> ELSE <<>>)
    ELSE LET b == Head(bytes)
             t == Tail(bytes)
         IN  IF needed = 0
             THEN IF b <= 127 THEN <<b>> \o Utf8Decode(t, 0, 0, 128, 191)
                  ELSE IF b >= 194 /\ b <= 223 THEN Utf8Decode(t, b % 32, 1, 128, 191)
                  ELSE IF b >= 224 /\ b <= 239
                       THEN Utf8Decode(t, b % 16, 2,
                                       IF b = 224 THEN 160 ELSE 128,
                                       IF b = 237 THEN 159 ELSE 191)
                  ELSE IF b >= 240 /\ b <= 244
                       THEN Utf8Decode(t, b % 8, 3,
                                       IF b = 240 THEN 144 ELSE 128,
                                       IF b = 244 THEN 143 ELSE 191)
                  ELSE <<65533>> \o Utf8Decode(t, 0, 0, 128, 191)
             ELSE IF b < lower \/ b > upper
                  THEN <<65533>> \o Utf8Decode(bytes, 0, 0, 128, 191)
                  ELSE IF needed = 1
                       THEN <<cp * 64 + (b % 64)>> \o Utf8Decode(t, 0, 0, 128, 191)
                       ELSE Utf8Decode(t, cp * 64 + (b % 64), needed - 1, 128, 191)

BufferToString(bytes) == Utf8Decode(bytes, 0, 0, 128, 191)

\* oldFileContent.toString() !== newFileContent.toString()
ContentDiffers(oldBytes, newBytes) == BufferToString(oldBytes) # BufferToString(newBytes)

\* what compare prints, in order, and whether it ran to its end (ok) or threw
Line(label, kind, path) == [label |-> label, kind |-> kind, path |-> path]

RECURSIVE CompareFilesRecursively(_, _, _)
RECURSIVE CompareOldFiles(_, _, _, _, _)
CompareOldFiles(f, oldFiles, oldPath, newPath, out) ==
    IF oldFiles = <<>> THEN [out |-> out, ok |-> TRUE]
    ELSE LET file == Head(oldFiles)
             oldFilePath == Append(oldPath, file.name)
             newFilePath == Append(newPath, file.name)
             inNew == file.name \in ChildNames(f, newPath)
         IN  IF file.isDirectory
             THEN IF inNew
                  THEN LET r == CompareFilesRecursively(f, oldFilePath, newFilePath)
                       IN  IF r.ok
                           THEN CompareOldFiles(f, Tail(oldFiles), oldPath, newPath, out \o r.out)
                           ELSE [out |-> out \o r.out, ok |-> FALSE]
                  ELSE CompareOldFiles(f, Tail(oldFiles), oldPath, newPath,
                           Append(out, Line("missing in new", "Directory", oldFilePath)))
             ELSE IF ~inNew
                  THEN CompareOldFiles(f, Tail(oldFiles), oldPath, newPath,
                           Append(out, Line("missing in new", "File", oldFilePath)))
                  ELSE IF ~IsFile(f, newFilePath)
                       THEN [out |-> out, ok |-> FALSE]
                       ELSE CompareOldFiles(f, Tail(oldFiles), oldPath, newPath,
                                IF ContentDiffers(f[oldFilePath].data, f[newFilePath].data)
                                THEN Append(out, Line("differs", "File", <<file.name>>))
                                ELSE out)

MissingInOld(f, oldPath, newPath) ==
    LET newFiles == SelectSeq(ReaddirSync(f, newPath),
                              LAMBDA n : n \notin ChildNames(f, oldPath))
    IN  [i \in 1..Len(newFiles) |->
            Line("missing in old", "File", Append(newPath, newFiles[i]))]

CompareFilesRecursively(f, oldPath, newPath) ==
    IF ~CanReaddir(f, oldPath) \/ ~CanReaddir(f, newPath)
    THEN [out |-> <<>>, ok |-> FALSE]
    ELSE LET r == CompareOldFiles(f, Dirents(f, oldPath), oldPath, newPath, <<>>)
         IN  IF r.ok
             THEN [out |-> r.out \o MissingInOld(f, oldPath, newPath), ok |-> TRUE]
             ELSE r

-----------------------------------------------------------------------------
(* The commands as steps over the filesystem                               *)

MaxBackups == 1

OriginalBytes == <<97>>
EditedBytes == <<98>>

\* the working directory holds a and d/b; o lies outside it
InitialFs ==
    (<<"/">> :> Dir) @@ (<<"/", "w">> :> Dir) @@ (<<"/", "w", "d">> :> Dir)
    @@ (<<"/", "w", "a">> :> File(OriginalBytes))
    @@ (<<"/", "w", "d", "b">> :> File(OriginalBytes))
    @@ (<<"/", "o">> :> File(OriginalBytes))

FsNames == <<"a", "b", "d", "new", "o", "old">>
Reverse(s) == [i \in 1..Len(s) |-> s[Len(s) + 1 - i]]

\* <filePath> arguments: relative inside the working directory, absolute,
\* outside the working directory, not existing
FilePaths == {<<"a">>, <<"d", "b">>, <<"/", "w", "a">>, <<"..", "w", "a">>,
              <<"..", "o">>, <<"nofile">>}
\* remove is also given a directory
RemovePaths == FilePaths \cup {<<"d">>}
InsidePaths == {<<"d", "b">>}

BackupArg(t) == <<Basename(BackupDir(t))>>
\* <backupDir> arguments: the backups taken, a directory inside the update
\* directory, the update directory itself, a missing directory
BackupDirs == {BackupArg(t) : t \in 1..MaxBackups}
                \cup {<<"u", "old">>, <<"u">>, <<"nobackup">>}

NoOp == [cmd |-> "none", arg |-> <<>>, ok |-> TRUE]
\* prevOp where the command before the last is not recorded
NotRecorded == [cmd |-> "not recorded", arg |-> <<>>, ok |-> TRUE]
Ran(cmd, arg, r) == [cmd |-> cmd, arg |-> arg, ok |-> r.ok, pre |-> fs]
Brief(op) == [cmd |-> op.cmd, arg |-> op.arg, ok |-> op.ok]
Before(op) == IF prevOp = NotRecorded THEN NotRecorded ELSE Brief(op)

Step(cmd, arg, r) ==
    /\ fs' = r.fs
    /\ lastOp' = Ran(cmd, arg, r)
    /\ prevOp' = Before(lastOp)
    /\ UNCHANGED <<cmpVars, pushVars>>

Create ==
    /\ Step("create", UpdateDir, CreateDirs(fs))
    /\ UNCHANGED <<order, clock, snap>>

Add(filePath) ==
    /\ Step("add", filePath, AddFile(fs, filePath))
    /\ UNCHANGED <<order, clock, snap>>

Remove(filePath) ==
    /\ Step("remove", filePath, RemoveFile(fs, filePath))
    /\ UNCHANGED <<order, clock, snap>>

\* the editor opened by add changes a file of new/
Edit ==
    /\ \E p \in DOMAIN fs :
          /\ IsPrefix(NewDir, p) /\ IsFile(fs, p) /\ fs[p].data # EditedBytes
          /\ fs' = [fs EXCEPT ![p] = File(EditedBytes)]
          /\ lastOp' = [cmd |-> "edit", arg |-> p, ok |-> TRUE, pre |-> fs]
    /\ prevOp' = Before(lastOp)
    /\ UNCHANGED <<order, clock, snap, cmpVars, pushVars>>

Backup ==
    /\ clock <= MaxBackups
    /\ Step("backup", BackupArg(clock), BackupTree(fs, clock))
    /\ snap' = IF BackupTree(fs, clock).ok
               THEN (BackupArg(clock) :> Subtree(fs, FullPath)) @@ snap
               ELSE snap
    /\ clock' = clock + 1
    /\ UNCHANGED order

Restore(backupDir) ==
    /\ Step("restore", backupDir, RestoreTree(fs, backupDir))
    /\ UNCHANGED <<order, clock, snap>>

NotRun == [ran |-> FALSE, ok |-> TRUE, out |-> <<>>]

CmpIdle ==
    /\ oldTree = <<>> /\ newTree = <<>> /\ outAB = NotRun /\ outBA = NotRun

PushIdle ==
    /\ version = "" /\ env = FALSE /\ pc = "idle" /\ conn = "none" /\ rlOpen = FALSE
    /\ answer = <<>> /\ plan = <<>> /\ puts = <<>> /\ inflight = {}
    /\ acked = {} /\ failed = {} /\ log = <<>>

InitFs ==
    /\ fs = InitialFs
    /\ order \in {FsNames, Reverse(FsNames)}
    /\ clock = 1
    /\ lastOp = [cmd |-> "none", arg |-> <<>>, ok |-> TRUE, pre |-> InitialFs]
    /\ snap = <<>>
    /\ CmpIdle /\ PushIdle

InitWorkspace == InitFs /\ prevOp = NoOp

InitBackup == InitFs /\ prevOp = NotRecorded

NextWorkspace ==
    \/ Create
    \/ \E f \in FilePaths : Add(f)
    \/ \E f \in RemovePaths : Remove(f)
    \/ Edit

SpecWorkspace == InitWorkspace /\ [][NextWorkspace]_vars

NextBackup ==
    \/ Create
    \/ \E f \in InsidePaths : Add(f)
    \/ \E f \in InsidePaths : Remove(f)
    \/ Edit
    \/ Backup
    \/ \E b \in BackupDirs : Restore(b)

SpecBackup == InitBackup /\ [][NextBackup]_vars

-----------------------------------------------------------------------------
(* compare over pairs of trees                                             *)

MaxFileLen == 1

ByteSet == {97, 169, 195, 255}

RECURSIVE SeqsOfLen(_, _)
SeqsOfLen(S, n) ==
    IF n = 0 THEN {<<>>}
    ELSE {Append(q, x) : q \in SeqsOfLen(S, n - 1), x \in S}

FileContents == UNION {SeqsOfLen(ByteSet, n) : n \in 1..MaxFileLen}

Absent == [kind |-> "absent", data |-> <<>>]

\* a tree: relative path -> node.  a is absent, a file or an empty
\* directory; m is absent, a file or a directory that may hold the file x.
TreeOf(a, m, x) ==
    LET present == {<<>>}
                   \cup (IF a = Absent THEN {} ELSE {<<"a">>})
                   \cup (IF m = Absent THEN {} ELSE {<<"m">>})
                   \cup (IF m = Dir /\ x # Absent THEN {<<"m", "x">>} ELSE {})
    IN  [r \in present |-> IF r = <<>> THEN Dir
                           ELSE IF r = <<"a">> THEN a
                           ELSE IF r = <<"m">> THEN m ELSE x]

Trees ==
    {TreeOf(a, m, x) :
        a \in {Absent, Dir} \cup {File(c) : c \in FileContents},
        m \in {Absent, Dir, File(<<97>>)},
        x \in {Absent, File(<<97>>), File(<<255>>)}}

Mount(at, tree) ==
    [q \in {at \o r : r \in DOMAIN tree} |-> tree[SubSeq(q, Len(at) + 1, Len(q))]]

\* the filesystem in which old/ holds tree A and new/ holds tree B
WorkspaceFs(A, B) ==
    Mount(OldDir, A) @@ Mount(NewDir, B)
    @@ (FullPath :> Dir) @@ (Cwd :> Dir) @@ (<<"/">> :> Dir)

CompareTrees(A, B) ==
    LET r == CompareFilesRecursively(WorkspaceFs(A, B), OldDir, NewDir)
    IN  [ran |-> TRUE, ok |-> r.ok, out |-> r.out]

CompareOldNew ==
    /\ ~outAB.ran
    /\ outAB' = CompareTrees(oldTree, newTree)
    /\ UNCHANGED <<oldTree, newTree, outBA, fsVars, pushVars>>

\* the same command in the workspace whose old/ and new/ are exchanged
CompareNewOld ==
    /\ ~outBA.ran
    /\ outBA' = CompareTrees(newTree, oldTree)
    /\ UNCHANGED <<oldTree, newTree, outAB, fsVars, pushVars>>

CmpOrders == {<<"a", "m", "x">>, <<"m", "a", "x">>}

InitCompare ==
    /\ oldTree \in Trees /\ newTree \in Trees
    /\ outAB = NotRun /\ outBA = NotRun
    /\ fs = InitialFs
    /\ order \in CmpOrders
    /\ clock = 1
    /\ lastOp = [cmd |-> "none", arg |-> <<>>, ok |-> TRUE, pre |-> InitialFs]
    /\ prevOp = NoOp
    /\ snap = <<>>
    /\ PushIdle

NextCompare ==
    \/ CompareOldNew
    \/ CompareNewOld

SpecCompare == InitCompare /\ [][NextCompare]_vars

-----------------------------------------------------------------------------
(* Properties of the update-directory commands                             *)

\* C5: after restore(root, backupRoot) with backupRoot an existing directory,
\* wherever it lies, the tree under root is exactly the tree backupRoot held
\* when restore was called.
RestoreIsFullCopy ==
    (lastOp.cmd = "restore" /\ lastOp.ok /\ IsDirectory(lastOp.pre, Resolve(lastOp.arg)))
        => Subtree(fs, FullPath) = Subtree(lastOp.pre, Resolve(lastOp.arg))

\* C6: restoring root from a backup taken of root leaves root with the
\* content it had when the backup was taken, and the diff between the two is
\* empty, whatever happened to root in between.
BackupThenRestoreKeepsContent ==
    (lastOp.cmd = "restore" /\ lastOp.arg \in DOMAIN snap)
        => /\ lastOp.ok
           /\ Subtree(fs, FullPath) = snap[lastOp.arg]
           /\ CompareTrees(snap[lastOp.arg], Subtree(fs, FullPath)).ok
           /\ CompareTrees(snap[lastOp.arg], Subtree(fs, FullPath)).out = <<>>

\* a restore from a backup of a root that held files, after root was changed
RestoredAfterChange ==
    /\ lastOp.cmd = "restore" /\ lastOp.arg \in DOMAIN snap
    /\ \E r \in DOMAIN snap[lastOp.arg] : snap[lastOp.arg][r].kind = "file"
    /\ Subtree(lastOp.pre, FullPath) # snap[lastOp.arg]
    /\ DOMAIN Subtree(lastOp.pre, FullPath) # DOMAIN snap[lastOp.arg]

ListedOnce(f, dir, rel) ==
    LET files == ListFilesRecursively(f, dir)
    IN  Cardinality({i \in 1..Len(files) : Relative(dir, files[i]) = rel}) = 1

\* C7: after add(root, f) of an existing file f, wherever f lies, the
\* listings of root/old and root/new each hold f's path relative to the
\* working directory exactly once, and both copies hold f's content.
AddListsFileInBoth ==
    (lastOp.cmd = "add" /\ IsFile(lastOp.pre, Resolve(lastOp.arg)))
        => /\ lastOp.ok
           /\ \A dir \in {OldDir, NewDir} :
                 /\ ListedOnce(fs, dir, RelPath(lastOp.arg))
                 /\ IsFile(fs, dir \o RelPath(lastOp.arg))
                 /\ fs[dir \o RelPath(lastOp.arg)].data
                        = lastOp.pre[Resolve(lastOp.arg)].data

RemovedAfterAdd ==
    (lastOp.cmd = "remove" /\ prevOp.cmd = "add" /\ prevOp.ok /\ prevOp.arg = lastOp.arg)
        => /\ lastOp.ok
           /\ ~ExistsSync(fs, DestOldPath(lastOp.arg))
           /\ ~ExistsSync(fs, DestNewPath(lastOp.arg))

RemoveAgainIsNoOp ==
    (lastOp.cmd = "remove" /\ prevOp.cmd = "remove" /\ prevOp.ok /\ prevOp.arg = lastOp.arg)
        => lastOp.ok /\ fs = lastOp.pre

RemoveToleratesAbsence ==
    (/\ lastOp.cmd = "remove"
     /\ \/ ~ExistsSync(lastOp.pre, RemoveOldPath(lastOp.arg))
        \/ ~ExistsSync(lastOp.pre, RemoveNewPath(lastOp.arg)))
        => /\ lastOp.ok
           /\ ~ExistsSync(fs, RemoveOldPath(lastOp.arg))
           /\ ~ExistsSync(fs, RemoveNewPath(lastOp.arg))

StoredAsGiven(p) == ~IsAbsolute(p) /\ Normalize(p) = RelPath(p)

-----------------------------------------------------------------------------
(* Properties of compare                                                   *)

RelOf(line) == SubSeq(line.path, Len(OldDir) + 1, Len(line.path))
MissingInNewOf(r) == {RelOf(l) : l \in {k \in Range(r.out) : k.label = "missing in new"}}
MissingInOldOf(r) == {RelOf(l) : l \in {k \in Range(r.out) : k.label = "missing in old"}}
DiffersOf(r) == {l.path : l \in {k \in Range(r.out) : k.label = "differs"}}

\* nothing is reported below a path reported missing, and nothing twice
SingleEntries(r) ==
    /\ \A i, j \in 1..Len(r.out) :
          (i # j /\ r.out[i].label # "differs" /\ r.out[j].label # "differs")
              => ~IsPrefix(r.out[i].path, r.out[j].path)

\* C9: for all pairs of trees, also with a name that is a file on one side
\* and a directory on the other, what is missing in new in one direction
\* is what is missing in old in the other, differs is the same in both
\* directions, and a directory absent on the other side is one entry.
CompareAntisymmetric ==
    (outAB.ran /\ outBA.ran)
        => /\ MissingInNewOf(outAB) = MissingInOldOf(outBA)
           /\ MissingInOldOf(outAB) = MissingInNewOf(outBA)
           /\ DiffersOf(outAB) = DiffersOf(outBA)
           /\ SingleEntries(outAB) /\ SingleEntries(outBA)

BothFiles(r) ==
    /\ r \in DOMAIN oldTree /\ r \in DOMAIN newTree
    /\ oldTree[r].kind = "file" /\ newTree[r].kind = "file"

\* C10: a name that is a file at the same relative path on both sides is
\* reported as differs exactly when the bytes of the two files differ.
CompareReportsByteDifference ==
    (outAB.ran /\ outAB.ok)
        => \A r \in DOMAIN oldTree :
              BothFiles(r)
                  => (<<r[Len(r)]>> \in DiffersOf(outAB)
                          <=> oldTree[r].data # newTree[r].data)

-----------------------------------------------------------------------------
(* push <updateDir> <version>                                              *)

MaxFiles == 3
MaxAnswerLen == 2

RemoteDir == <<"/", "srv">>

\* listFiles(dir): the (local, remote) pairs of the files under dir, depth
\* first; ok = FALSE when a readdirSync throws.
RECURSIVE Traverse(_, _, _)
RECURSIVE TraverseEntries(_, _, _, _)
TraverseEntries(f, dir, currentDir, files) ==
    IF files = <<>> THEN [ok |-> TRUE, files |-> <<>>]
    ELSE LET file == Head(files)
             filePath == Append(currentDir, file.name)
             r == IF file.isDirectory THEN Traverse(f, dir, filePath)
                  ELSE [ok |-> TRUE,
                        files |-> <<[localFilePath |-> filePath,
                                     remoteFilePath |-> Join(RemoteDir, Relative(dir, filePath))]>>]
         IN  IF ~r.ok THEN r
             ELSE LET rest == TraverseEntries(f, dir, currentDir, Tail(files))
                  IN  [ok |-> rest.ok, files |-> r.files \o rest.files]
Traverse(f, dir, currentDir) ==
    IF ~CanReaddir(f, currentDir) THEN [ok |-> FALSE, files |-> <<>>]
    ELSE TraverseEntries(f, dir, currentDir, Dirents(f, currentDir))

ListFiles(f, dir) == Traverse(f, dir, dir)

WhiteSpace == {" ", "\t"}

RECURSIVE TrimStart(_)
TrimStart(str) ==
    IF str # <<>> /\ Head(str) \in WhiteSpace THEN TrimStart(Tail(str)) ELSE str

Trim(str) == Reverse(TrimStart(Reverse(TrimStart(str))))

ToLowerCase(str) ==
    [i \in 1..Len(str) |-> IF str[i] = "Y" THEN "y" ELSE IF str[i] = "N" THEN "n" ELSE str[i]]

\* askConfirmation accepting whatever is not a no
AskConfirmationUnlessNo(str) == ToLowerCase(Trim(str)) # <<"n">>

\* askConfirmation: answer.trim().toLowerCase() === "y"
AskConfirmation(str) == ToLowerCase(Trim(str)) = <<"y">>

\* client.end(): an open connection starts closing
ClientEnd(c) == IF c \in {"connecting", "ready"} THEN "ended" ELSE c

\* a finally block that closes the prompt and leaves the client connected
FinallyKeepsClient ==
    /\ rlOpen' = FALSE
    /\ conn' = conn
    /\ pc' = "done"

\* finally { rl.close(); client.end(); } ends the ready handler
Finally ==
    /\ rlOpen' = FALSE
    /\ conn' = ClientEnd(conn)
    /\ pc' = "done"

\* uploading every file at once, without awaiting the one before
PutsFromAll(i) == IF i = 1 THEN [k \in 1..Len(plan) |-> k] ELSE <<>>

\* the loop body to run next: the put of file i, if there is a file i
PutsFrom(i) == IF i <= Len(plan) THEN <<i>> ELSE <<>>

\* the for loop from file i on, the puts in `pending` still awaiting their
\* callback: the next put is issued, or the loop is over and the handler
\* leaves through finally
UploadFrom(i, lines, pending) ==
    IF PutsFrom(i) # <<>>
    THEN /\ puts' = puts \o [k \in 1..Len(PutsFrom(i)) |-> plan[PutsFrom(i)[k]]]
         /\ inflight' = pending \cup Range(PutsFrom(i))
         /\ log' = log \o lines
         /\ pc' = "uploading"
         /\ UNCHANGED <<rlOpen, conn>>
    ELSE /\ log' = log \o lines \o <<"Upload completed successfully.">>
         /\ inflight' = pending
         /\ Finally
         /\ UNCHANGED puts

\* a rejected upload that is logged and skipped, the loop going on
UploadRejectedGoesOn(i) ==
    /\ failed' = failed \cup {i}
    /\ UploadFrom(i + 1, <<"Error during upload">>, inflight \ {i})
    /\ UNCHANGED acked

\* uploadFile rejects: catch logs the error, finally ends the handler
UploadRejected(i) ==
    /\ failed' = failed \cup {i}
    /\ log' = Append(log, "Error during upload")
    /\ inflight' = inflight \ {i}
    /\ Finally
    /\ UNCHANGED <<puts, acked>>

NoAnswer == <<"<none>">>

\* the push action up to client.connect
PushStart ==
    /\ pc = "start"
    /\ IF version # "new" /\ version # "old"
       THEN /\ log' = Append(log, "Please specify either 'old' or 'new' version.")
            /\ pc' = "returned"
            /\ UNCHANGED <<conn, rlOpen>>
       ELSE IF ~env
       THEN /\ log' = Append(log, "FTP credentials are not set.")
            /\ pc' = "returned"
            /\ UNCHANGED <<conn, rlOpen>>
       ELSE /\ rlOpen' = TRUE
            /\ conn' = "connecting"
            /\ pc' = "connecting"
            /\ UNCHANGED log
    /\ UNCHANGED <<version, env, answer, plan, puts, inflight, acked, failed, fsVars, cmpVars>>

\* client.on("ready"): the plan is listed and printed, the prompt is shown
Ready ==
    /\ pc = "connecting" /\ conn = "connecting"
    /\ LET r == ListFiles(fs, Join(FullPath, <<version>>))
       IN  IF r.ok
           THEN /\ plan' = r.files
                /\ conn' = "ready"
                /\ log' = Append(log, "Files to be uploaded:")
                /\ pc' = "asking"
                /\ UNCHANGED rlOpen
           ELSE /\ log' = Append(log, "Error during upload")
                /\ Finally
                /\ UNCHANGED plan
    /\ UNCHANGED <<version, env, answer, puts, inflight, acked, failed, fsVars, cmpVars>>

\* the rl.question callback
Answer(str) ==
    /\ pc = "asking" /\ rlOpen
    /\ answer' = str
    /\ IF AskConfirmation(str)
       THEN UploadFrom(1, <<"Confirmed.. starting..">>, inflight)
       ELSE /\ log' = Append(log, "Operation cancelled.")
            /\ Finally
            /\ UNCHANGED <<puts, inflight>>
    /\ UNCHANGED <<version, env, plan, acked, failed, fsVars, cmpVars>>

\* the client.put callback of file i, without an error: the promise
\* resolves and the loop goes on with file i + 1
PutSucceeds(i) ==
    /\ pc = "uploading" /\ i \in inflight /\ conn = "ready"
    /\ acked' = acked \cup {i}
    /\ UploadFrom(i + 1, <<"Uploaded">>, inflight \ {i})
    /\ UNCHANGED <<version, env, answer, plan, failed, fsVars, cmpVars>>

\* the client.put callback of file i, with an error
PutFails(i) ==
    /\ pc = "uploading" /\ i \in inflight
    /\ UploadRejected(i)
    /\ UNCHANGED <<version, env, answer, plan, fsVars, cmpVars>>

\* client.on("error"): while connecting, at the prompt, during an upload or
\* after the handler has left; one error event at most
ClientError ==
    /\ conn \in {"connecting", "ready", "ended"}
    /\ "FTP client error" \notin Range(log)
    /\ log' = Append(log, "FTP client error")
    /\ rlOpen' = FALSE
    /\ conn' = ClientEnd(conn)
    /\ UNCHANGED <<version, env, pc, answer, plan, puts, inflight, acked, failed, fsVars, cmpVars>>

\* client.on("close"), after end() or when the server closes the connection
ClientClose ==
    /\ conn \in {"connecting", "ready", "ended"}
    /\ conn' = "closed"
    /\ log' = Append(log, "FTP client closed")
    /\ rlOpen' = FALSE
    /\ UNCHANGED <<version, env, pc, answer, plan, puts, inflight, acked, failed, fsVars, cmpVars>>

\* the input stream ends at the prompt: readline closes, nothing is answered
InputEnds ==
    /\ pc = "asking" /\ rlOpen
    /\ rlOpen' = FALSE
    /\ UNCHANGED <<version, env, pc, conn, answer, plan, puts, inflight, acked, failed, log,
                   fsVars, cmpVars>>

AnswerChars == {"y", "Y", "n", " "}
Answers == UNION {SeqsOfLen(AnswerChars, n) : n \in 0..MaxAnswerLen}

FileName(i) == ToString(i)

\* the update directory whose new/ holds n files, every second one in new/d
PushFs(n) ==
    LET at(i) == IF i % 2 = 0 THEN NewDir \o <<"d", FileName(i)>>
                 ELSE NewDir \o <<FileName(i)>>
        files == {at(i) : i \in 1..n}
        dirs == {<<"/">>, Cwd, FullPath, OldDir, NewDir}
                   \cup (IF n >= 2 THEN {NewDir \o <<"d">>} ELSE {})
    IN  [q \in files \cup dirs |-> IF q \in dirs THEN Dir ELSE File(OriginalBytes)]

PushOrder == <<"d">> \o [i \in 1..MaxFiles |-> FileName(i)]

InitPush ==
    /\ fs \in {InitialFs} \cup {PushFs(n) : n \in 0..MaxFiles}
    /\ order \in {PushOrder, Reverse(PushOrder)}
    /\ version \in {"new", "old", "latest"}
    /\ env \in BOOLEAN
    /\ pc = "start" /\ conn = "none" /\ rlOpen = FALSE
    /\ answer = NoAnswer /\ plan = <<>> /\ puts = <<>> /\ inflight = {}
    /\ acked = {} /\ failed = {} /\ log = <<>>
    /\ clock = 1
    /\ lastOp = [cmd |-> "none", arg |-> <<>>, ok |-> TRUE, pre |-> InitialFs]
    /\ prevOp = NoOp
    /\ snap = <<>>
    /\ CmpIdle

NextPush ==
    \/ PushStart
    \/ Ready
    \/ \E str \in Answers : Answer(str)
    \/ \E i \in 1..MaxFiles : PutSucceeds(i)
    \/ \E i \in 1..MaxFiles : PutFails(i)
    \/ ClientError
    \/ ClientClose
    \/ InputEnds

SpecPush == InitPush /\ [][NextPush]_vars

-----------------------------------------------------------------------------
(* Properties of push                                                      *)

Logged(line) == line \in Range(log)

\* the state of the transfer session, read off what push printed
Session ==
    IF Logged("Upload completed successfully.") THEN "Completed"
    ELSE IF Logged("Operation cancelled.") THEN "Cancelled"
    ELSE IF Logged("Error during upload") \/ Logged("FTP client error") THEN "Failed"
    ELSE IF pc = "uploading" THEN "Uploading"
    ELSE IF pc = "asking" THEN "AwaitingConfirmation"
    ELSE "Planned"

Answered == answer # NoAnswer

\* a yes: one y or Y with nothing but white space around it
SaysYes(str) ==
    \E i \in 1..Len(str) :
        /\ str[i] \in {"y", "Y"}
        /\ \A j \in 1..Len(str) : j # i => str[j] \in WhiteSpace

Released == ~rlOpen /\ conn \in {"ended", "closed"}

\* C1: no put is issued before a yes has been answered, and after any other
\* answer no put is ever issued and the session ends as Cancelled.
NoUploadWithoutYes ==
    /\ puts # <<>> => (Answered /\ SaysYes(answer))
    /\ (Answered /\ ~SaysYes(answer))
          => /\ puts = <<>> /\ inflight = {}
             /\ Session = "Cancelled" /\ pc = "done"
             /\ ~Logged("Error during upload")

\* a no was answered to a plan of several files
CancelledWithPlan ==
    /\ Answered /\ ~SaysYes(answer) /\ answer # <<>>
    /\ Len(plan) >= 2 /\ pc = "done"

\* C2: once the upload of item i has failed, item i is the last one issued,
\* the session is Failed (the error is printed, the success line never),
\* and the items before i stay uploaded.
FailFast ==
    \A i \in failed :
        /\ Len(puts) = i /\ inflight = {}
        /\ Session = "Failed" /\ pc = "done"
        /\ Logged("Error during upload")
        /\ ~Logged("Upload completed successfully.")
        /\ acked = 1..(i - 1)

\* the second of three uploads failed
SecondUploadFailed ==
    /\ failed = {2} /\ acked = {1} /\ Len(plan) = 3 /\ SaysYes(answer)

\* C3: the puts issued are the first items of the plan in plan order, at
\* most one is awaiting its callback, each was issued after every one before
\* it was acknowledged, and the session is Completed only with every item
\* acknowledged.
SequentialUploads ==
    /\ Cardinality(inflight) <= 1
    /\ Len(puts) <= Len(plan) /\ puts = SubSeq(plan, 1, Len(puts))
    /\ inflight \subseteq {Len(puts)}
    /\ \A j \in 1..(Len(puts) - 1) : j \in acked
    /\ Session = "Completed" => acked = 1..Len(plan)

\* three files were uploaded one after the other
AllUploaded ==
    /\ Session = "Completed" /\ Len(plan) = 3 /\ Len(puts) = 3 /\ acked = {1, 2, 3}

\* no step of push is enabled: no client event, no answer, no put callback
Quiescent ==
    /\ pc # "start"
    /\ conn \notin {"connecting", "ready", "ended"}
    /\ ~(pc = "asking" /\ rlOpen)
    /\ ~(pc = "uploading" /\ inflight # {})

\* C4: once the ready handler has left (completed, cancelled or failed) or
\* the error handler has run, and in every state in which nothing more can
\* happen, the connection is ended and the prompt is closed.
ResourcesReleased ==
    /\ (pc = "done" \/ Logged("FTP client error")) => Released
    /\ (pc \notin {"start", "returned"} /\ Quiescent) => Released

\* the client emitted an error while an upload was awaiting its callback
ErrorDuringUpload ==
    /\ Logged("FTP client error") /\ pc = "uploading" /\ inflight # {} /\ Released

====
